---------------------------- MODULE Spec2Model ----------------------------
(***************************************************************************)
(* A model of lrun (src/src/lrun.cc): the supervisor that parses its       *)
(* command line, validates the configuration, creates and sets up a        *)
(* cgroup, spawns the command in it, monitors it in a polling loop,        *)
(* writes a status record to fd 3 and cleans the cgroup up.                *)
(*                                                                         *)
(* The supervisor is one sequential process (pc is its position).  The     *)
(* kernel and the child tree run beside it: the child terminates, forks    *)
(* and a signal reaches the supervisor at any step.  The cgroup counters   *)
(* and the clock are read by the supervisor only, so a read returns any    *)
(* value not below the last one read.                                      *)
(***************************************************************************)
EXTENDS Integers, Sequences, FiniteSets, TLC

VARIABLES
    argv,             \* the command line after argv[0]: a sequence of words
    env,              \* what the caller fixes: real uid/gid, effective uid, fd 3
    config,           \* the static struct config (lrun.cc:49-65)
    pc,               \* position of the supervisor
    exit_code,        \* argument of exit(), NoExit while the process lives
    error_messages,   \* check_config's error_messages
    cg,               \* the cgroup: directory, member tasks, flock
    child,            \* "none", "running", "zombie" or "reaped"
    child_stat,       \* the wait status the kernel holds for the child
    pid,              \* result of Cgroup::spawn
    handlers,         \* TRUE once setup_signal_handlers has run
    signal_triggered, \* static volatile sig_atomic_t signal_triggered
    stat,             \* run_command's stat
    exceeded_limit,   \* run_command's exceeded_limit
    running,          \* the loop variable of run_command
    samples,          \* last values read: clock, cpu usage, memory peak, output
    times,            \* run_command's start_time and deadline
    report,           \* the composed status_report
    fd3,              \* what has reached the status channel
    fd3_state,        \* the supervisor's descriptor 3: "open", "cloexec", "closed" or "bad"
    ret,              \* the exit code handed to clean_cg_exit
    hist,             \* history: facts about the run that the claims speak of
    peer              \* a second lrun process started with the same --cgname

vars == <<argv, env, config, pc, exit_code, error_messages, cg, child, child_stat,
          pid, handlers, signal_triggered, stat, exceeded_limit, running, samples,
          times, report, fd3, fd3_state, ret, hist, peer>>

-----------------------------------------------------------------------------
(* Bounds of the model *)

\* The clock, in ticks since the loop's start_time, is read in 0..MaxClock.
MaxClock == 2
\* cpuacct.usage, in ticks, is read in 0..MaxCpu.
MaxCpu == 2
\* memory.max_usage_in_bytes is read in MIN_MEMORY_LIMIT-1 .. MIN_MEMORY_LIMIT-1+MaxMem.
MaxMem == 2
\* The output count is read in 0..MaxOut.
MaxOut == 2

-----------------------------------------------------------------------------
(* Program constants *)

MIN_MEMORY_LIMIT == 500000
DefaultInterval == 20000

SIGHUP == 1
SIGINT == 2
SIGQUIT == 3
SIGILL == 4
SIGTRAP == 5
SIGABRT == 6
SIGFPE == 8
SIGKILL == 9
SIGTERM == 15
SIGXCPU == 24
SIGXFSZ == 25

\* The signals setup_signal_handlers routes to signal_handler.
HandledSignals == {SIGHUP, SIGINT, SIGTERM, SIGABRT, SIGQUIT, SIGFPE, SIGILL, SIGTRAP}

NoExit == -1

-----------------------------------------------------------------------------
(* The wait status macros of <sys/wait.h>, on the status word *)

ExitedStatus(code) == (code % 256) * 256
SignaledStatus(sig) == sig

WTERMSIG(s) == s % 128
WEXITSTATUS(s) == (s \div 256) % 256
WIFEXITED(s) == WTERMSIG(s) = 0
\* ((signed char)((s & 0x7f) + 1) >> 1) > 0
WIFSIGNALED(s) == WTERMSIG(s) # 0 /\ WTERMSIG(s) # 127

-----------------------------------------------------------------------------
(* Words of the command line *)

\* An option word "--name", and the other words by the type strconv gives
\* their value: a number, a string, a bool, a path, a syscall filter.
Opt(name) == [opt |-> name]
Num(v) == [num |-> v]
Str(v) == [str |-> v]
Bool(v) == [bool |-> v]
PathArg(v) == [path |-> v]
Filter(prefix, list) == [filter |-> [prefix |-> prefix, list |-> list]]
\* strncmp("--", argv[i], 2) == 0
IsOption(w) == "opt" \in DOMAIN w

\* The long long that strconv::to_longlong yields for an id argument is kept
\* as its two halves, v = q * 2^32 + r with 0 <= r < 2^32; (uid_t)v and
\* (gid_t)v keep the low 32 bits.
LongLong(q, r) == [big |-> [q |-> q, r |-> r]]
ToId(v) == v.r

\* A path argument, with what fs:: finds for it once the binds are followed:
\* whether it is absolute and whether the caller may read it.
Path(name, absolute, accessible) == [name |-> name, abs |-> absolute, acc |-> accessible]
NoPath == Path("", FALSE, FALSE)

\* init_default_config
DefaultConfig(e) ==
    [ cpu_time_limit |-> -1, real_time_limit |-> -1, memory_limit |-> -1,
      output_limit |-> -1, enable_devices_whitelist |-> FALSE,
      enable_network |-> TRUE, enable_pidns |-> TRUE, pass_exitcode |-> FALSE,
      interval |-> DefaultInterval, cgname |-> "", groups |-> <<>>,
      cgroup_options |-> {},
      nice |-> 0, uid |-> e.uid, gid |-> e.gid, no_new_privs |-> TRUE,
      clone_flags |-> {}, argc |-> 0, cmd_list |-> <<>>,
      syscall_action |-> "OTHERS_EPERM", syscall_list |-> "",
      remount_list |-> {}, bindfs_list |-> <<>>, bindfs_dest_set |-> {},
      chroot_path |-> NoPath, chdir_path |-> NoPath, rlimit_cpu |-> -1 ]


-----------------------------------------------------------------------------
(* parse_cli_options *)

OneArgOptions ==
    {"max-cpu-time", "max-real-time", "max-memory", "max-output", "max-nprocess",
     "min-nice", "max-rtprio", "max-nfile", "max-stack", "isolate-process",
     "basic-devices", "remount-dev", "reset-env", "network", "pass-exitcode",
     "chroot", "chdir", "nice", "umask", "uid", "gid", "no-new-privs", "syscalls",
     "group", "interval", "cgname", "hostname", "domainname", "ostype",
     "osrelease", "osversion", "remount-ro", "fd", "cmd"}
TwoArgOptions == {"bindfs", "bindfs-ro", "tmpfs", "env"}
ThreeArgOptions == {"cgroup-option"}
ExitOptions == {"help", "help-syscalls", "version"}
SeccompOptions == {"syscalls", "help-syscalls"}

\* The n of the option's REQUIRE_NARGV(n)
NArgs(option) ==
    IF option \in OneArgOptions THEN 1
    ELSE IF option \in TwoArgOptions THEN 2
    ELSE IF option \in ThreeArgOptions THEN 3
    ELSE 0

\* The options the else-if chain knows; --syscalls and --help-syscalls only
\* when seccomp::supported().
KnownOption(option, e) ==
    /\ option \in OneArgOptions \cup TwoArgOptions \cup ThreeArgOptions
                  \cup ExitOptions \cup {""}
    /\ option \in SeccompOptions => e.seccomp

\* A --syscalls value is [prefix, list]: its first character when that is one
\* of ! - = +, and the rest.
\* Variant of SyscallAction in which every prefix selects OTHERS_EPERM
SyscallActionAnyPrefix(v) == IF v.prefix # "" THEN "OTHERS_EPERM" ELSE "DEFAULT_EPERM"

SyscallAction(v) == IF v.prefix \in {"!", "-"} THEN "OTHERS_EPERM" ELSE "DEFAULT_EPERM"

\* Variant of MaxMemory that takes the value as given
MaxMemoryAsGiven(max_memory) == max_memory

\* --max-memory: a positive value below the minimum is changed to the minimum
\* (lrun.cc:335-340)
MaxMemory(max_memory) ==
    IF max_memory > 0 /\ max_memory < MIN_MEMORY_LIMIT THEN MIN_MEMORY_LIMIT
    ELSE max_memory

\* The body of one branch of the else-if chain: the config after the option
\* with its arguments a (already converted by strconv).
ApplyOption(cfg, option, a) ==
    CASE option = "max-cpu-time" -> [cfg EXCEPT !.cpu_time_limit = a[1]]
      [] option = "max-real-time" -> [cfg EXCEPT !.real_time_limit = a[1]]
      [] option = "max-memory" -> [cfg EXCEPT !.memory_limit = MaxMemory(a[1])]
      [] option = "max-output" -> [cfg EXCEPT !.output_limit = a[1]]
      [] option = "isolate-process" -> [cfg EXCEPT !.enable_pidns = a[1]]
      [] option = "basic-devices" -> [cfg EXCEPT !.enable_devices_whitelist = a[1]]
      [] option = "network" -> [cfg EXCEPT !.enable_network = a[1]]
      [] option = "pass-exitcode" -> [cfg EXCEPT !.pass_exitcode = a[1]]
      [] option = "chroot" -> [cfg EXCEPT !.chroot_path = a[1]]
      [] option = "chdir" -> [cfg EXCEPT !.chdir_path = a[1]]
      [] option = "nice" -> [cfg EXCEPT !.nice = a[1]]
      [] option = "uid" -> [cfg EXCEPT !.uid = ToId(a[1])]
      [] option = "gid" -> [cfg EXCEPT !.gid = ToId(a[1])]
      [] option = "no-new-privs" -> [cfg EXCEPT !.no_new_privs = a[1]]
      [] option = "syscalls" ->
            [cfg EXCEPT !.syscall_action = SyscallAction(a[1]),
                        !.syscall_list = a[1].list]
      [] option = "group" ->
            IF ToId(a[1]) # 0
            THEN [cfg EXCEPT !.groups = Append(@, ToId(a[1]))]
            ELSE cfg
      [] option = "interval" ->
            IF a[1] > 0 THEN [cfg EXCEPT !.interval = a[1]] ELSE cfg
      [] option = "cgname" -> [cfg EXCEPT !.cgname = a[1]]
      [] option \in {"hostname", "domainname", "ostype", "osrelease", "osversion"} ->
            [cfg EXCEPT !.clone_flags = @ \cup {"CLONE_NEWUTS"}]
      [] option = "remount-ro" -> [cfg EXCEPT !.remount_list = @ \cup {a[1]}]
      [] option = "bindfs" ->
            [cfg EXCEPT !.bindfs_list = Append(@, <<a[1], a[2]>>),
                        !.bindfs_dest_set = @ \cup {a[1]}]
      [] option = "bindfs-ro" ->
            [cfg EXCEPT !.bindfs_list = Append(@, <<a[1], a[2]>>),
                        !.bindfs_dest_set = @ \cup {a[1]},
                        !.remount_list = @ \cup {a[1]}]
      [] option = "cgroup-option" ->
            \* subsys_id_from_name(a[1]) >= 0 for a subsystem name that exists
            IF a[1] # "nosuch"
            THEN [cfg EXCEPT !.cgroup_options = @ \cup {<<a[1], a[2]>>}]
            ELSE cfg
      [] option = "cmd" -> [cfg EXCEPT !.cmd_list = Append(@, a[1])]
      \* rlimits, umask, remount-dev, reset-env, tmpfs, env, fd: fields of
      \* config.arg that only Cgroup::spawn reads
      [] OTHER -> cfg

\* The word a NEXT_*_ARG yields
ArgOf(w) == w[CHOOSE f \in DOMAIN w : TRUE]

\* The for loop of parse_cli_options from word i on.  Yields the config and
\* the exit code of an exit() inside the loop (NoExit when the loop is left).
RECURSIVE ParseFrom(_, _, _, _)
ParseFrom(cfg, words, i, e) ==
    IF i > Len(words) THEN [config |-> cfg, exit |-> NoExit]
    ELSE IF ~IsOption(words[i])
    THEN [config |-> [cfg EXCEPT !.argc = Len(words) - i + 1], exit |-> NoExit]
    ELSE
      LET option == words[i].opt
          n == NArgs(option)
          c0 == [cfg EXCEPT !.argc = Len(words) - i]
          c1 == [c0 EXCEPT !.argc = @ - n]
          a == [k \in 1..n |-> ArgOf(words[i + k])]
      IN  IF ~KnownOption(option, e) THEN [config |-> c0, exit |-> 1]
          ELSE IF option \in ExitOptions THEN [config |-> c0, exit |-> 0]
          ELSE IF option = "" THEN [config |-> c0, exit |-> NoExit]
          ELSE IF i + n > Len(words) THEN [config |-> c0, exit |-> 1]
          ELSE ParseFrom(ApplyOption(c1, option, a), words, i + n + 1, e)

\* main up to check_config: print_help when argc <= 1, else init_default_config
\* and parse_cli_options.
ParseCli(words, e) ==
    IF Len(words) = 0 THEN [config |-> DefaultConfig(e), exit |-> 0]
    ELSE ParseFrom(DefaultConfig(e), words, 1, e)


-----------------------------------------------------------------------------
(* check_config *)

\* check_path_permission: the messages it pushes for one path
PathErrors(p) ==
    IF ~p.abs THEN <<"relative path">>
    ELSE IF ~p.acc THEN <<"no permission">>
    ELSE <<>>

RECURSIVE BindErrors(_, _)
BindErrors(binds, i) ==
    IF i > Len(binds) THEN <<>>
    ELSE PathErrors(binds[i][2]) \o BindErrors(binds, i + 1)

Msg(cond, m) == IF cond THEN <<m>> ELSE <<>>

\* The uid rule and the gid rule (lrun.cc:572-588)
\* Variant of IdErrors without the tests for 0: only the rule for callers
\* that are not root is left.
IdErrorsNoZero(cfg, e, is_root) ==
    Msg(~is_root /\ cfg.uid # e.uid, "uid requires root")
    \o Msg(~is_root /\ cfg.gid # e.gid, "gid requires root")

IdErrors(cfg, e, is_root) ==
    (IF cfg.uid = 0 THEN <<"uid = 0">>
     ELSE Msg(~is_root /\ cfg.uid # e.uid, "uid requires root"))
    \o
    (IF cfg.gid = 0 THEN <<"gid = 0">>
     ELSE Msg(~is_root /\ cfg.gid # e.gid, "gid requires root"))

\* Variant of NonRootErrors without the rule on --remount-ro
NonRootErrorsNoRemount(cfg) ==
    Msg(Len(cfg.cmd_list) > 0, "--cmd requires root")
    \o Msg(Len(cfg.groups) > 0, "--group requires root")
    \o BindErrors(cfg.bindfs_list, 1)
    \o (IF cfg.chroot_path.name # "" THEN PathErrors(cfg.chroot_path) ELSE <<>>)
    \o (IF cfg.chdir_path.name # "" THEN PathErrors(cfg.chdir_path) ELSE <<>>)
    \o Msg(cfg.no_new_privs = FALSE, "--no-new-privs false")
    \o Msg(cfg.nice < 0, "negative --nice")

\* The rules for callers that are not root (lrun.cc:596-650)
NonRootErrors(cfg) ==
    Msg(Len(cfg.cmd_list) > 0, "--cmd requires root")
    \o Msg(Len(cfg.groups) > 0, "--group requires root")
    \o BindErrors(cfg.bindfs_list, 1)
    \o (IF cfg.chroot_path.name # "" THEN PathErrors(cfg.chroot_path) ELSE <<>>)
    \o (IF cfg.chdir_path.name # "" THEN PathErrors(cfg.chdir_path) ELSE <<>>)
    \o [k \in 1..Cardinality(cfg.remount_list \ cfg.bindfs_dest_set) |-> "remount-ro without bindfs"]
    \o Msg(cfg.no_new_privs = FALSE, "--no-new-privs false")
    \o Msg(cfg.nice < 0, "negative --nice")

\* Variant of CheckErrors that stops at the first rule that is violated
CheckErrorsFirst(cfg, e) ==
    LET is_root == (e.uid = 0)
        all == IdErrors(cfg, e, is_root)
               \o Msg(cfg.argc <= 0, "command_args can not be empty")
               \o (IF ~is_root THEN NonRootErrors(cfg) ELSE <<>>)
               \o Msg(cfg.syscall_list = "" /\ cfg.syscall_action = "DEFAULT_EPERM",
                      "syscall filter forbids all syscalls")
    IN  IF all = <<>> THEN <<>> ELSE <<all[1]>>

\* error_messages at the end of check_config
CheckErrors(cfg, e) ==
    LET is_root == (e.uid = 0)
    IN  IdErrors(cfg, e, is_root)
        \o Msg(cfg.argc <= 0, "command_args can not be empty")
        \o (IF ~is_root THEN NonRootErrors(cfg) ELSE <<>>)
        \o Msg(cfg.syscall_list = "" /\ cfg.syscall_action = "DEFAULT_EPERM",
               "syscall filter forbids all syscalls")

-----------------------------------------------------------------------------
(* The cgroup, as the calls of lrun.cc use it *)

\* Cgroup::killall: every task of the group gets SIGKILL (killed keeps the
\* tasks this process has killed)
KillallTasks(c) == [c EXCEPT !.tasks = {}, !.killed = @ \cup c.tasks]
\* Cgroup::destroy: killall, then the directory is removed
DestroyCgroup(c) == [KillallTasks(c) EXCEPT !.exists = FALSE]

\* What SIGKILL from killall does to the child
KillChild(ch) == IF ch = "running" THEN "zombie" ELSE ch
KillChildStat(ch, st) == IF ch = "running" THEN SignaledStatus(SIGKILL) ELSE st

\* exit(): the flock is dropped with the process
Exit(code) ==
    /\ pc' = "exited"
    /\ exit_code' = code

\* A call of clean_cg_exit(cg, code): control moves to the function
GoClean(code) ==
    /\ pc' = "clean"
    /\ ret' = code

\* hist with the kind of failure that ends the run, and hist with one more
\* step of setup_cgroup done
Failed(kind) == [hist EXCEPT !.kind = kind]
Stepped(done, step) == IF done THEN [hist EXCEPT !.steps = Append(@, step)] ELSE hist


-----------------------------------------------------------------------------
(* Inputs *)

Chunk(b, words) == IF b THEN words ELSE <<>>

\* Command lines of the runs that are monitored: every subset of the four
\* limits, alone or with the options that name the cgroup, set it up and
\* pass the exit code on, and a command.
RunExtras ==
    { <<>>,
      <<Opt("cgname"), Str("box"), Opt("basic-devices"), Bool(TRUE),
        Opt("cgroup-option"), Str("cpu"), Str("cpu.shares"), Str("512"),
        Opt("pass-exitcode"), Bool(TRUE)>> }

RunArgv(c, r, m, o, x) ==
    Chunk(c, <<Opt("max-cpu-time"), Num(1)>>)
      \o Chunk(r, <<Opt("max-real-time"), Num(1)>>)
      \o Chunk(m, <<Opt("max-memory"), Num(MIN_MEMORY_LIMIT)>>)
      \o Chunk(o, <<Opt("max-output"), Num(1)>>)
      \o x \o <<Opt(""), Str("command")>>

RunArgvs ==
    { RunArgv(c, r, m, o, x) :
      c \in BOOLEAN, r \in BOOLEAN, m \in BOOLEAN, o \in BOOLEAN, x \in RunExtras }

\* Callers: a user through the setuid-root binary, with fd 3 opened or not;
\* the same user through a binary that is not setuid; root.
Caller(uid, gid, euid, fd) ==
    [uid |-> uid, gid |-> gid, euid |-> euid, fd3 |-> fd, seccomp |-> TRUE]
User == Caller(1000, 1000, 0, "open")
UserNoFd3 == Caller(1000, 1000, 0, "bad")
UserNoSetuid == Caller(1000, 1000, 1000, "open")
Root == Caller(0, 0, 0, "open")

\* The cgroup before the program starts: absent, or left by an earlier user
\* of the name with a task in it.
FreshCgroup == [exists |-> FALSE, tasks |-> {}, locked |-> FALSE, killed |-> {}]
UsedCgroup == [exists |-> TRUE, tasks |-> {"old"}, locked |-> FALSE, killed |-> {}]

\* The runs: every command line for the user with fd 3 open and no cgroup
\* yet; the command lines with all four limits for the other callers; and
\* command lines that name a cgroup that is in use already.
RunInputs ==
    (RunArgvs \X {User} \X {FreshCgroup})
    \cup ({RunArgv(TRUE, TRUE, TRUE, TRUE, x) : x \in RunExtras}
            \X {UserNoFd3, UserNoSetuid, Root} \X {FreshCgroup})
    \cup ({RunArgv(b, b, b, b, x) : b \in BOOLEAN, x \in RunExtras \ {<<>>}}
            \X {User} \X {UsedCgroup})

\* Command lines for the checks of parse_cli_options and check_config: up to
\* two options, then nothing, a command, or "--" and a command ...
CliChunks ==
    { <<Opt("uid"), LongLong(0, 0)>>, <<Opt("uid"), LongLong(0, 1000)>>,
      <<Opt("uid"), LongLong(0, 2000)>>, <<Opt("uid"), LongLong(1, 0)>>,
      <<Opt("gid"), LongLong(0, 0)>>, <<Opt("gid"), LongLong(0, 1000)>>,
      <<Opt("gid"), LongLong(0, 2000)>>, <<Opt("gid"), LongLong(1, 0)>>,
      <<Opt("group"), LongLong(0, 0)>>, <<Opt("group"), LongLong(0, 5)>>,
      <<Opt("group"), LongLong(1, 0)>>,
      <<Opt("cmd"), Str("mount")>>,
      <<Opt("nice"), Num(-1)>>, <<Opt("nice"), Num(5)>>,
      <<Opt("no-new-privs"), Bool(FALSE)>>, <<Opt("no-new-privs"), Bool(TRUE)>>,
      <<Opt("cgname"), Str("box")>>,
      <<Opt("help")>>, <<Opt("bogus")>>, <<>> }

CliTails == { <<>>, <<Str("command")>>, <<Opt(""), Str("command")>> }

\* ... or an option whose argument is missing, as the last word.
CliArgvs ==
    { a \o b \o t : a \in CliChunks, b \in CliChunks, t \in CliTails }
    \cup { a \o <<Opt("uid")>> : a \in CliChunks }

CliCallers ==
    { Root, User, UserNoSetuid, Caller(1000, 0, 0, "open"), Caller(0, 1000, 0, "open") }

CliInputs == CliArgvs \X CliCallers \X {FreshCgroup, UsedCgroup}

\* Command lines for the rules of check_config and for the flags of spawn:
\* syscall filters of either mode with and without rules, remounts with and
\* without a bind of the same destination, paths that are relative or not
\* readable, ids, memory limits around the minimum, namespace options.
GoodPath == Path("/srv", TRUE, TRUE)
RelativePath == Path("srv", FALSE, TRUE)
DeniedPath == Path("/root", TRUE, FALSE)

RuleChunks ==
    { <<Opt("syscalls"), Filter(p, l)>> : p \in {"", "=", "+", "!", "-"}, l \in {"", "read"} }
    \cup
    { <<Opt("remount-ro"), Str("/a")>>, <<Opt("remount-ro"), Str("/b")>>,
      <<Opt("bindfs"), Str("/a"), PathArg(GoodPath)>>,
      <<Opt("bindfs-ro"), Str("/a"), PathArg(GoodPath)>>,
      <<Opt("bindfs"), Str("/b"), PathArg(RelativePath)>>,
      <<Opt("bindfs-ro"), Str("/b"), PathArg(DeniedPath)>>,
      <<Opt("chroot"), PathArg(GoodPath)>>, <<Opt("chroot"), PathArg(RelativePath)>>,
      <<Opt("chdir"), PathArg(DeniedPath)>>,
      <<Opt("uid"), LongLong(0, 0)>>, <<Opt("gid"), LongLong(0, 2000)>>,
      <<Opt("group"), LongLong(0, 0)>>, <<Opt("group"), LongLong(0, 5)>>,
      <<Opt("cmd"), Str("mount")>>, <<Opt("nice"), Num(-1)>>,
      <<Opt("no-new-privs"), Bool(FALSE)>>,
      <<Opt("max-memory"), Num(-1)>>, <<Opt("max-memory"), Num(0)>>,
      <<Opt("max-memory"), Num(1)>>, <<Opt("max-memory"), Num(MIN_MEMORY_LIMIT - 1)>>,
      <<Opt("max-memory"), Num(MIN_MEMORY_LIMIT)>>,
      <<Opt("max-memory"), Num(MIN_MEMORY_LIMIT + 1)>>,
      <<Opt("network"), Bool(FALSE)>>, <<Opt("network"), Bool(TRUE)>>,
      <<Opt("isolate-process"), Bool(FALSE)>>, <<Opt("isolate-process"), Bool(TRUE)>>,
      <<Opt("hostname"), Str("box")>>, <<Opt("osversion"), Str("1")>>,
      <<>> }

RuleTails == { <<>>, <<Opt(""), Str("command")>> }

\* The ids a caller that is root has to give, uid and gid 0 being refused
OwnIds == <<Opt("uid"), LongLong(0, 1000), Opt("gid"), LongLong(0, 1000)>>

RuleArgvs == { a \o b \o t : a \in RuleChunks, b \in RuleChunks, t \in RuleTails }

RuleInputs ==
    (RuleArgvs \X {User, UserNoSetuid} \X {FreshCgroup})
    \cup ({ OwnIds \o w : w \in RuleArgvs } \X {Root} \X {FreshCgroup})
    \cup ({ a \o <<Opt(""), Str("command")>> : a \in RuleChunks } \X {Root} \X {FreshCgroup})

\* Wait statuses the child ends with: exit 0, exit 3, SIGKILL, SIGXCPU, SIGXFSZ.
ChildStatuses ==
    { ExitedStatus(0), ExitedStatus(3), SignaledStatus(SIGKILL),
      SignaledStatus(SIGXCPU), SignaledStatus(SIGXFSZ) }

\* Signals sent to the supervisor
DeliveredSignals == {SIGTERM}

\* Results of Cgroup::spawn: a pid, or 0 or a negative error
SpawnResults == {7, 0, -3}

\* exit codes of the FATAL macro (common.h)
FatalExitCodes == {1, 255}

MemFloor == MIN_MEMORY_LIMIT - 1

\* The memory peak as a read may find it: MemFloor, or some half pages more;
\* the peak never falls, so a read finds no less than the read before.
PageSize == 4096
MemStep == PageSize \div 2 + 1
MemSamples(last) == { m \in { MemFloor + k * MemStep : k \in 0..MaxMem } : m >= last }

\* The second process: not there, or about to call create_cgroup.  hit says
\* that its killall has killed the child of this process while this process
\* was alive.
NoPeer == [pc |-> "none", hit |-> FALSE]
PeerStart == [pc |-> "create_cgroup", hit |-> FALSE]

\* The second process holds the flock from its lock to its exit
PeerHolds == peer.pc \in {"setup", "spawn", "run", "clean"}

InitRun(inputs) ==
    /\ \E i \in inputs : argv = i[1] /\ env = i[2] /\ cg = i[3]
    /\ config = DefaultConfig(env)
    /\ pc = "main"
    /\ exit_code = NoExit
    /\ error_messages = <<>>
    /\ child = "none"
    /\ child_stat = 0
    /\ pid = 0
    /\ handlers = FALSE
    /\ signal_triggered = 0
    /\ stat = 0
    /\ exceeded_limit = ""
    /\ running = TRUE
    /\ samples = [clock |-> 0, cpu |-> 0, mem |-> MemFloor, out |-> 0]
    /\ times = [start_time |-> 0, deadline |-> -1]
    /\ report = <<>>
    /\ fd3 = <<>>
    /\ fd3_state = env.fd3
    /\ ret = 0
    /\ hist = [left |-> "", term_before_collect |-> FALSE, sig_in_loop |-> FALSE,
               write_calls |-> 0, close_calls |-> 0, created |-> FALSE,
               kind |-> "", steps |-> <<>>, term_at_top |-> FALSE,
               inherited |-> FALSE]

InitWith(inputs) == InitRun(inputs) /\ peer = NoPeer

Init == InitWith(RunInputs)

-----------------------------------------------------------------------------
(* main, up to run_command *)

procVars == <<child, child_stat, pid>>
loopVars == <<stat, exceeded_limit, running, samples, times>>
outVars == <<report, fd3, fd3_state>>
\* What the steps of this process leave alone: its inputs and the second process
inVars == <<argv, env, peer>>

\* main: print_help, init_default_config, parse_cli_options (lrun.cc:995-998)
Main ==
    /\ pc = "main"
    /\ LET r == ParseCli(argv, env)
       IN  /\ config' = r.config
           /\ IF r.exit # NoExit
              THEN Exit(r.exit) /\ hist' = Failed(IF r.exit = 0 THEN "" ELSE "arguments")
              ELSE pc' = "check_config" /\ UNCHANGED <<exit_code, hist>>
    /\ UNCHANGED <<inVars, error_messages, cg, procVars, handlers, signal_triggered,
                   loopVars, outVars, ret>>

CheckConfig ==
    /\ pc = "check_config"
    /\ error_messages' = CheckErrors(config, env)
    /\ IF Len(error_messages') > 0 THEN Exit(1) /\ hist' = Failed("arguments")
       ELSE pc' = "check_environment" /\ UNCHANGED <<exit_code, hist>>
    /\ UNCHANGED <<inVars, config, cg, procVars, handlers, signal_triggered,
                   loopVars, outVars, ret>>

\* check_environment: FATAL unless the effective uid is 0
CheckEnvironment ==
    /\ pc = "check_environment"
    /\ IF env.euid # 0
       THEN (\E code \in FatalExitCodes : Exit(code)) /\ hist' = Failed("environment")
       ELSE pc' = "create_cgroup" /\ UNCHANGED <<exit_code, hist>>
    /\ UNCHANGED <<inVars, config, error_messages, cg, procVars, handlers,
                   signal_triggered, loopVars, outVars, ret>>

\* create_cgroup: Cgroup::create makes or reuses the group, or is not valid
CreateCgroup ==
    /\ pc = "create_cgroup"
    /\ \/ /\ cg' = [cg EXCEPT !.exists = TRUE]
          /\ hist' = [hist EXCEPT !.created = TRUE]
          /\ pc' = "lock"
          /\ UNCHANGED exit_code
       \/ /\ \E code \in FatalExitCodes : Exit(code)
          /\ hist' = Failed("create")
          /\ UNCHANGED cg
    /\ UNCHANGED <<inVars, config, error_messages, procVars, handlers,
                   signal_triggered, loopVars, outVars, ret>>

\* Variant of Lock that does not wait for the holder of the lock
LockNoWait ==
    /\ pc = "lock"
    /\ cg' = [cg EXCEPT !.locked = TRUE]
    /\ pc' = "setup_devices"
    /\ UNCHANGED <<inVars, config, exit_code, error_messages, procVars, handlers,
                   signal_triggered, loopVars, outVars, ret, hist>>

\* fs::ScopedFileLock cg_lock(cg.subsys_path()) (lrun.cc:1010): the call
\* returns when no other process holds the lock
Lock ==
    /\ pc = "lock"
    /\ ~PeerHolds
    /\ cg' = [cg EXCEPT !.locked = TRUE]
    /\ pc' = "setup_devices"
    /\ UNCHANGED <<inVars, config, exit_code, error_messages, procVars, handlers,
                   signal_triggered, loopVars, outVars, ret, hist>>

(* setup_cgroup *)

\* cg.limit_devices() (lrun.cc:772-777)
SetupDevices ==
    /\ pc = "setup_devices"
    /\ \/ /\ pc' = "setup_memory"
          /\ hist' = Stepped(config.enable_devices_whitelist, "devices")
          /\ UNCHANGED ret
       \/ config.enable_devices_whitelist /\ GoClean(1) /\ hist' = Failed("devices")
    /\ UNCHANGED <<inVars, config, exit_code, error_messages, cg, procVars, handlers,
                   signal_triggered, loopVars, outVars>>

\* cg.set_memory_limit(config.memory_limit) and the two quiet cg.set
SetupMemory ==
    /\ pc = "setup_memory"
    /\ \/ /\ pc' = "setup_options"
          /\ hist' = Stepped(config.memory_limit > 0, "memory")
          /\ UNCHANGED ret
       \/ config.memory_limit > 0 /\ GoClean(2) /\ hist' = Failed("memory")
    /\ UNCHANGED <<inVars, config, exit_code, error_messages, cg, procVars, handlers,
                   signal_triggered, loopVars, outVars>>

\* FOR_EACH(p, config.cgroup_options) cg.set(...)
SetupOptions ==
    /\ pc = "setup_options"
    /\ \/ /\ pc' = "setup_killall"
          /\ hist' = Stepped(config.cgroup_options # {}, "options")
          /\ UNCHANGED ret
       \/ config.cgroup_options # {} /\ GoClean(7) /\ hist' = Failed("options")
    /\ UNCHANGED <<inVars, config, exit_code, error_messages, cg, procVars, handlers,
                   signal_triggered, loopVars, outVars>>

\* cg.killall() (lrun.cc:804)
SetupKillall ==
    /\ pc = "setup_killall"
    /\ cg' = KillallTasks(cg)
    /\ hist' = Stepped(TRUE, "killall")
    /\ pc' = "setup_reset"
    /\ UNCHANGED <<inVars, config, exit_code, error_messages, procVars, handlers,
                   signal_triggered, loopVars, outVars, ret>>

\* Variant of SetupReset that reports the failure of reset_usages and goes on
SetupResetGoesOn ==
    /\ pc = "setup_reset"
    /\ pc' = "cloexec"
    /\ config' = [config EXCEPT !.rlimit_cpu =
                    IF config.cpu_time_limit > 0 THEN config.cpu_time_limit ELSE @]
    /\ \/ hist' = Stepped(TRUE, "reset")
       \/ hist' = Failed("reset")
    /\ UNCHANGED <<inVars, exit_code, error_messages, cg, procVars, handlers,
                   signal_triggered, loopVars, outVars, ret>>

\* cg.reset_usages() and the RLIMIT_CPU backstop (lrun.cc:806-814)
SetupReset ==
    /\ pc = "setup_reset"
    /\ \/ /\ pc' = "cloexec"
          /\ config' = [config EXCEPT !.rlimit_cpu =
                          IF config.cpu_time_limit > 0 THEN config.cpu_time_limit ELSE @]
          /\ hist' = Stepped(TRUE, "reset")
          /\ UNCHANGED ret
       \/ GoClean(4) /\ hist' = Failed("reset") /\ UNCHANGED config
    /\ UNCHANGED <<inVars, exit_code, error_messages, cg, procVars, handlers,
                   signal_triggered, loopVars, outVars>>

-----------------------------------------------------------------------------
(* run_command, up to the loop *)

\* Variant of RunCloexec that goes on to spawn when fcntl has failed
RunCloexecGoesOn ==
    /\ pc = "cloexec"
    /\ pc' = "spawn"
    /\ \/ fd3_state = "open" /\ fd3_state' = "cloexec"
       \/ UNCHANGED fd3_state
    /\ UNCHANGED <<inVars, config, exit_code, error_messages, cg, procVars, handlers,
                   signal_triggered, loopVars, report, fd3, ret, hist>>

\* fcntl(3, F_SETFD, FD_CLOEXEC); EBADF is ignored (lrun.cc:821-827)
RunCloexec ==
    /\ pc = "cloexec"
    /\ \/ /\ fd3_state = "bad"
          /\ pc' = "spawn"
          /\ UNCHANGED <<fd3_state, ret, hist>>
       \/ /\ fd3_state = "open"
          /\ fd3_state' = "cloexec"
          /\ pc' = "spawn"
          /\ UNCHANGED <<ret, hist>>
       \/ /\ fd3_state = "open"
          /\ GoClean(5)
          /\ hist' = Failed("cloexec")
          /\ UNCHANGED fd3_state
    /\ UNCHANGED <<inVars, config, exit_code, error_messages, cg, procVars, handlers,
                   signal_triggered, loopVars, report, fd3>>

\* Variant of SpawnFlags with the test of enable_network inverted
SpawnFlagsNetworkInverted(cfg) ==
    cfg.clone_flags
      \cup (IF cfg.enable_network THEN {"CLONE_NEWNET"} ELSE {})
      \cup (IF cfg.enable_pidns THEN {"CLONE_NEWPID", "CLONE_NEWIPC"} ELSE {})

\* clone_flags as run_command completes them (lrun.cc:832-834)
SpawnFlags(cfg) ==
    cfg.clone_flags
      \cup (IF ~cfg.enable_network THEN {"CLONE_NEWNET"} ELSE {})
      \cup (IF cfg.enable_pidns THEN {"CLONE_NEWPID", "CLONE_NEWIPC"} ELSE {})

\* pid = cg.spawn(config.arg); clean_cg_exit(cg, 10 - pid) when pid <= 0
Spawn ==
    /\ pc = "spawn"
    /\ config' = [config EXCEPT !.clone_flags = SpawnFlags(config)]
    /\ \E p \in SpawnResults :
          /\ pid' = p
          /\ IF p <= 0
             THEN GoClean(10 - p) /\ hist' = Failed("spawn") /\ UNCHANGED <<child, cg>>
             ELSE /\ child' = "running"
                  /\ cg' = [cg EXCEPT !.tasks = @ \cup {"child"}]
                  /\ pc' = "handlers"
                  /\ hist' = [hist EXCEPT !.inherited = (fd3_state = "open")]
                  /\ UNCHANGED ret
    /\ UNCHANGED <<inVars, exit_code, error_messages, child_stat, handlers,
                   signal_triggered, loopVars, outVars>>

\* setup_signal_handlers, nice(-5), start_time, deadline, stat, exceeded_limit
\* (lrun.cc:844-857).  The clock counts ticks from this call of now().
EnterLoop ==
    /\ pc = "handlers"
    /\ handlers' = TRUE
    /\ times' = [start_time |-> samples.clock,
                 deadline |-> IF config.real_time_limit > 0
                              THEN samples.clock + config.real_time_limit ELSE -1]
    /\ stat' = 0
    /\ exceeded_limit' = ""
    /\ running' = TRUE
    /\ pc' = "loop"
    /\ UNCHANGED <<inVars, config, exit_code, error_messages, cg, procVars,
                   signal_triggered, samples, outVars, ret, hist>>

-----------------------------------------------------------------------------
(* run_command: the monitoring loop (lrun.cc:859-942) *)

LeaveLoop(how) ==
    /\ pc' = "collect"
    /\ hist' = [hist EXCEPT !.left = how]

\* Variant of SignalExit: the loop is left with break, and the code after the
\* loop runs.
SignalBreak == pc' = "collect" /\ UNCHANGED <<ret, hist>>

\* Variant of SignalExit with the exit code of the waitpid failure
SignalExitSix == GoClean(6) /\ hist' = Failed("signal")

\* What the loop does on a recorded signal: clean_cg_exit(cg, 4)
SignalExit == GoClean(4) /\ hist' = Failed("signal")

\* check signal (lrun.cc:861-865)
LoopSignal ==
    /\ pc = "loop"
    /\ IF signal_triggered # 0 THEN SignalExit
       ELSE /\ pc' = "waitpid"
            /\ hist' = [hist EXCEPT !.term_at_top = (child \in {"zombie", "reaped"})]
            /\ UNCHANGED ret
    /\ UNCHANGED <<inVars, config, exit_code, error_messages, cg, procVars, handlers,
                   signal_triggered, loopVars, outVars>>

\* Variant of LoopWaitpid that goes on to the tests when waitpid has returned
\* the child
LoopWaitpidNoBreak ==
    /\ pc = "waitpid"
    /\ stat' = 0
    /\ child' = IF child = "zombie" THEN "reaped" ELSE child
    /\ pc' = "cpu"
    /\ UNCHANGED <<inVars, config, exit_code, error_messages, cg, child_stat, pid,
                   handlers, signal_triggered, exceeded_limit, running, samples, times,
                   outVars, ret, hist>>

\* waitpid(pid, &stat, WNOHANG), then "clean stat" (lrun.cc:868-885).  A child
\* that has terminated is returned with its status (it has exited or was
\* signaled) and the loop breaks; for a running child waitpid returns 0, or -1
\* with ECHILD, which only sleeps.
LoopWaitpid ==
    /\ pc = "waitpid"
    /\ IF child = "zombie"
       THEN /\ stat' = child_stat
            /\ child' = "reaped"
            /\ LeaveLoop("reaped")
       ELSE /\ stat' = 0
            /\ pc' = "cpu"
            /\ UNCHANGED <<child, hist>>
    /\ UNCHANGED <<inVars, config, exit_code, error_messages, cg, child_stat, pid,
                   handlers, signal_triggered, exceeded_limit, running, samples, times,
                   outVars, ret>>

\* Variant of LoopCpu that reads the usage and goes on to the next test
\* whatever it reads
LoopCpuNoBreak ==
    /\ pc = "cpu"
    /\ IF config.cpu_time_limit > 0
       THEN \E v \in samples.cpu..MaxCpu : samples' = [samples EXCEPT !.cpu = v]
       ELSE UNCHANGED samples
    /\ pc' = "real"
    /\ UNCHANGED <<inVars, config, exit_code, error_messages, cg, procVars, handlers,
                   signal_triggered, stat, exceeded_limit, running, times, outVars,
                   ret, hist>>

\* check time limit exceed (lrun.cc:888-891)
LoopCpu ==
    /\ pc = "cpu"
    /\ IF config.cpu_time_limit > 0
       THEN \E v \in samples.cpu..MaxCpu :
              /\ samples' = [samples EXCEPT !.cpu = v]
              /\ IF v >= config.cpu_time_limit
                 THEN exceeded_limit' = "CPU_TIME" /\ LeaveLoop("CPU_TIME")
                 ELSE pc' = "real" /\ UNCHANGED <<exceeded_limit, hist>>
       ELSE pc' = "real" /\ UNCHANGED <<samples, exceeded_limit, hist>>
    /\ UNCHANGED <<inVars, config, exit_code, error_messages, cg, procVars, handlers,
                   signal_triggered, stat, running, times, outVars, ret>>

\* Variant of LoopReal without the test of the deadline
LoopRealNoTest ==
    /\ pc = "real"
    /\ pc' = "mem"
    /\ UNCHANGED <<inVars, config, exit_code, error_messages, cg, procVars, handlers,
                   signal_triggered, stat, exceeded_limit, running, samples, times,
                   outVars, ret, hist>>

\* check realtime exceed (lrun.cc:894-897)
LoopReal ==
    /\ pc = "real"
    /\ IF times.deadline > 0
       THEN \E v \in samples.clock..MaxClock :
              /\ samples' = [samples EXCEPT !.clock = v]
              /\ IF v >= times.deadline
                 THEN exceeded_limit' = "REAL_TIME" /\ LeaveLoop("REAL_TIME")
                 ELSE pc' = "mem" /\ UNCHANGED <<exceeded_limit, hist>>
       ELSE pc' = "mem" /\ UNCHANGED <<samples, exceeded_limit, hist>>
    /\ UNCHANGED <<inVars, config, exit_code, error_messages, cg, procVars, handlers,
                   signal_triggered, stat, running, times, outVars, ret>>

\* Variant of LoopMem that calls waitpid once more before it breaks
LoopMemWaits ==
    /\ pc = "mem"
    /\ \E v \in MemSamples(samples.mem) :
          /\ samples' = [samples EXCEPT !.mem = v]
          /\ IF v >= config.memory_limit /\ config.memory_limit > 0
             THEN /\ exceeded_limit' = "MEMORY" /\ LeaveLoop("MEMORY")
                  /\ stat' = IF child = "zombie" THEN child_stat ELSE stat
             ELSE pc' = "zombie" /\ UNCHANGED <<exceeded_limit, hist, stat>>
    /\ UNCHANGED <<inVars, config, exit_code, error_messages, cg, procVars, handlers,
                   signal_triggered, running, times, outVars, ret>>

\* check memory limit (lrun.cc:900-903): memory_peak() is read first
LoopMem ==
    /\ pc = "mem"
    /\ \E v \in MemSamples(samples.mem) :
          /\ samples' = [samples EXCEPT !.mem = v]
          /\ IF v >= config.memory_limit /\ config.memory_limit > 0
             THEN exceeded_limit' = "MEMORY" /\ LeaveLoop("MEMORY")
             ELSE pc' = "zombie" /\ UNCHANGED <<exceeded_limit, hist>>
    /\ UNCHANGED <<inVars, config, exit_code, error_messages, cg, procVars, handlers,
                   signal_triggered, stat, running, times, outVars, ret>>

\* get_process_state(pid) == 'Z': running = false and waitpid again, which
\* returns the child or fails (lrun.cc:907-916)
LoopZombie ==
    /\ pc = "zombie"
    /\ IF child = "zombie"
       THEN /\ running' = FALSE
            /\ \/ /\ stat' = child_stat
                  /\ child' = "reaped"
                  /\ pc' = "output"
                  /\ UNCHANGED <<ret, hist>>
               \/ /\ GoClean(6)
                  /\ hist' = Failed("waitpid")
                  /\ UNCHANGED <<stat, child>>
       ELSE pc' = "output" /\ UNCHANGED <<running, stat, child, ret, hist>>
    /\ UNCHANGED <<inVars, config, exit_code, error_messages, cg, child_stat, pid,
                   handlers, signal_triggered, exceeded_limit, samples, times,
                   outVars>>

\* update_output_count, output_usage (lrun.cc:918-932)
LoopOutput ==
    /\ pc = "output"
    /\ IF config.output_limit > 0
       THEN \E v \in samples.out..MaxOut :
              /\ samples' = [samples EXCEPT !.out = v]
              /\ IF v > config.output_limit
                 THEN exceeded_limit' = "OUTPUT" /\ LeaveLoop("OUTPUT")
                 ELSE pc' = "empty" /\ UNCHANGED <<exceeded_limit, hist>>
       ELSE pc' = "empty" /\ UNCHANGED <<samples, exceeded_limit, hist>>
    /\ UNCHANGED <<inVars, config, exit_code, error_messages, cg, procVars, handlers,
                   signal_triggered, stat, running, times, outVars, ret>>

\* cg.empty(), usleep, and the loop condition (lrun.cc:935-942, 859)
LoopEmpty ==
    /\ pc = "empty"
    /\ running' = (running /\ cg.tasks # {})
    /\ IF running' THEN pc' = "loop" /\ UNCHANGED hist
       ELSE LeaveLoop("ended")
    /\ UNCHANGED <<inVars, config, exit_code, error_messages, cg, procVars, handlers,
                   signal_triggered, stat, exceeded_limit, samples, times, outVars, ret>>

-----------------------------------------------------------------------------
(* run_command: collect stats and report (lrun.cc:946-991) *)

KilledBy(st, sig) == WIFSIGNALED(st) /\ WTERMSIG(st) = sig

\* Variant of CpuHit that looks at the usage only, not at the signal
CpuHitUsageOnly(cfg, st, cpu) == cfg.cpu_time_limit > 0 /\ cpu >= cfg.cpu_time_limit

\* Variant of MemoryHit without the test that a limit is set
MemoryHitAnyLimit(cfg, mem) == mem >= cfg.memory_limit

MemoryHit(cfg, mem) == cfg.memory_limit > 0 /\ mem >= cfg.memory_limit
CpuHit(cfg, st, cpu) ==
    KilledBy(st, SIGXCPU) \/ (cfg.cpu_time_limit > 0 /\ cpu >= cfg.cpu_time_limit)
RealHit(cfg, real) == cfg.real_time_limit > 0 /\ real >= cfg.real_time_limit

\* Variant of CollectExceeded with the memory test after the cpu test
CollectExceededMemoryLast(cfg, st, ex, mem, cpu, real) ==
    LET ex1 == IF CpuHit(cfg, st, cpu) THEN "CPU_TIME" ELSE ex
        ex2 == IF MemoryHit(cfg, mem) THEN "MEMORY" ELSE ex1
        ex3 == IF KilledBy(st, SIGXFSZ) THEN "OUTPUT" ELSE ex2
    IN  IF RealHit(cfg, real) THEN "REAL_TIME" ELSE ex3

\* exceeded_limit after the four tests that follow the loop, from the value
\* ex the loop left
\* Variant of CollectExceeded with the test of the elapsed time first
CollectExceededRealFirst(cfg, st, ex, mem, cpu, real) ==
    LET ex0 == IF RealHit(cfg, real) THEN "REAL_TIME" ELSE ex
        ex1 == IF MemoryHit(cfg, mem) THEN "MEMORY" ELSE ex0
        ex2 == IF CpuHit(cfg, st, cpu) THEN "CPU_TIME" ELSE ex1
    IN  IF KilledBy(st, SIGXFSZ) THEN "OUTPUT" ELSE ex2

CollectExceeded(cfg, st, ex, mem, cpu, real) ==
    LET ex1 == IF MemoryHit(cfg, mem) THEN "MEMORY" ELSE ex
        ex2 == IF CpuHit(cfg, st, cpu) THEN "CPU_TIME" ELSE ex1
        ex3 == IF KilledBy(st, SIGXFSZ) THEN "OUTPUT" ELSE ex2
    IN  IF RealHit(cfg, real) THEN "REAL_TIME" ELSE ex3

\* Variants of StatusReport: CPUTIME, or MEMORY, is the sample as it was read
StatusReportCpuSample(cfg, st, ex, mem, cpu, real) ==
    LET exceeded == CollectExceeded(cfg, st, ex, mem, cpu, real)
    IN  << <<"MEMORY", IF MemoryHit(cfg, mem) THEN cfg.memory_limit ELSE mem>>,
           <<"CPUTIME", cpu>>,
           <<"REALTIME", IF RealHit(cfg, real) THEN cfg.real_time_limit ELSE real>>,
           <<"SIGNALED", IF WIFSIGNALED(st) THEN 1 ELSE 0>>,
           <<"EXITCODE", WEXITSTATUS(st)>>,
           <<"TERMSIG", WTERMSIG(st)>>,
           <<"EXCEED", IF exceeded = "" THEN "none" ELSE exceeded>> >>

StatusReportMemorySample(cfg, st, ex, mem, cpu, real) ==
    LET exceeded == CollectExceeded(cfg, st, ex, mem, cpu, real)
    IN  << <<"MEMORY", mem>>,
           <<"CPUTIME", IF CpuHit(cfg, st, cpu) THEN cfg.cpu_time_limit ELSE cpu>>,
           <<"REALTIME", IF RealHit(cfg, real) THEN cfg.real_time_limit ELSE real>>,
           <<"SIGNALED", IF WIFSIGNALED(st) THEN 1 ELSE 0>>,
           <<"EXITCODE", WEXITSTATUS(st)>>,
           <<"TERMSIG", WTERMSIG(st)>>,
           <<"EXCEED", IF exceeded = "" THEN "none" ELSE exceeded>> >>

\* The text snprintf composes: the seven lines, each a key and a value
StatusReport(cfg, st, ex, mem, cpu, real) ==
    LET exceeded == CollectExceeded(cfg, st, ex, mem, cpu, real)
    IN  << <<"MEMORY", IF MemoryHit(cfg, mem) THEN cfg.memory_limit ELSE mem>>,
           <<"CPUTIME", IF CpuHit(cfg, st, cpu) THEN cfg.cpu_time_limit ELSE cpu>>,
           <<"REALTIME", IF RealHit(cfg, real) THEN cfg.real_time_limit ELSE real>>,
           <<"SIGNALED", IF WIFSIGNALED(st) THEN 1 ELSE 0>>,
           <<"EXITCODE", WEXITSTATUS(st)>>,
           <<"TERMSIG", WTERMSIG(st)>>,
           <<"EXCEED", IF exceeded = "" THEN "none" ELSE exceeded>> >>

\* memory_peak(), cpu_usage() and now() after the loop, and snprintf
Collect ==
    /\ pc = "collect"
    /\ \E m \in MemSamples(samples.mem), c \in samples.cpu..MaxCpu,
          t \in samples.clock..MaxClock :
          /\ samples' = [samples EXCEPT !.mem = m, !.cpu = c, !.clock = t]
          /\ exceeded_limit' = CollectExceeded(config, stat, exceeded_limit, m, c,
                                               t - times.start_time)
          /\ report' = StatusReport(config, stat, exceeded_limit, m, c,
                                    t - times.start_time)
    /\ hist' = [hist EXCEPT !.term_before_collect = (child \in {"zombie", "reaped"})]
    /\ pc' = "write"
    /\ UNCHANGED <<inVars, config, exit_code, error_messages, cg, procVars, handlers,
                   signal_triggered, stat, running, times, fd3, fd3_state, ret>>

\* Variant of Written that repeats the write
WrittenTwice(channel, state, text) ==
    IF state \in {"open", "cloexec"} THEN Append(Append(channel, text), text) ELSE channel

\* What write(3, status_report, ...) leaves on the channel
Written(channel, state, text) ==
    IF state \in {"open", "cloexec"} THEN Append(channel, text) ELSE channel

\* Variant of AfterWrite: the cleanup is entered with fd 3 still open
AfterWriteClean == GoClean(0)

\* What follows the write: close(3), not yet the cleanup
AfterWrite == pc' = "close" /\ UNCHANGED ret

\* write(3, ...) (lrun.cc:985): the result is ignored
Write ==
    /\ pc = "write"
    /\ fd3' = Written(fd3, fd3_state, report)
    /\ hist' = [hist EXCEPT !.write_calls = @ + 1]
    /\ AfterWrite
    /\ UNCHANGED <<inVars, config, exit_code, error_messages, cg, procVars, handlers,
                   signal_triggered, loopVars, report, fd3_state>>

\* Variant of ReturnValue that passes the wait status as it is
ReturnValueRaw(cfg, st) == IF cfg.pass_exitcode THEN st ELSE 0

\* The value run_command returns (lrun.cc:991)
ReturnValue(cfg, st) == IF cfg.pass_exitcode THEN WEXITSTATUS(st) ELSE 0

\* close(3); return ...; and main's clean_cg_exit(cg, ret) (lrun.cc:989-991,
\* 1012-1013)
Close ==
    /\ pc = "close"
    /\ fd3_state' = IF fd3_state = "bad" THEN "bad" ELSE "closed"
    /\ hist' = [hist EXCEPT !.close_calls = @ + 1]
    /\ GoClean(ReturnValue(config, stat))
    /\ UNCHANGED <<inVars, config, exit_code, error_messages, cg, procVars, handlers,
                   signal_triggered, loopVars, report, fd3>>

-----------------------------------------------------------------------------
(* clean_cg_exit (lrun.cc:690-700) *)

\* Variant of CleanedCgroup that destroys the cgroup whatever its name
CleanedCgroupDestroy(cfg, c) == DestroyCgroup(c)

CleanedCgroup(cfg, c) == IF cfg.cgname = "" THEN DestroyCgroup(c) ELSE KillallTasks(c)

CleanCgExit ==
    /\ pc = "clean"
    /\ cg' = [CleanedCgroup(config, cg) EXCEPT !.locked = FALSE]
    /\ child' = KillChild(child)
    /\ child_stat' = KillChildStat(child, child_stat)
    /\ Exit(ret)
    /\ UNCHANGED <<inVars, config, error_messages, pid, handlers, signal_triggered,
                   loopVars, outVars, ret, hist>>

-----------------------------------------------------------------------------
(* The kernel, the child tree and the senders of signals *)

Alive == pc \notin {"exited", "killed"}
LoopPcs == {"loop", "waitpid", "cpu", "real", "mem", "zombie", "output", "empty"}

\* The child exits or is killed; a dead task leaves the group's task list.
ChildTerminates ==
    /\ Alive
    /\ child = "running"
    /\ \E s \in ChildStatuses : child_stat' = s
    /\ child' = "zombie"
    /\ cg' = [cg EXCEPT !.tasks = @ \ {"child"}]
    /\ UNCHANGED <<inVars, config, pc, exit_code, error_messages, pid, handlers,
                   signal_triggered, loopVars, outVars, ret, hist>>

\* The child forks a task, which joins the group.
ChildForks ==
    /\ Alive
    /\ child = "running"
    /\ "other" \notin cg.tasks
    /\ cg' = [cg EXCEPT !.tasks = @ \cup {"other"}]
    /\ UNCHANGED <<inVars, config, pc, exit_code, error_messages, procVars, handlers,
                   signal_triggered, loopVars, outVars, ret, hist>>

\* A forked task ends.
OtherExits ==
    /\ Alive
    /\ "other" \in cg.tasks
    /\ cg' = [cg EXCEPT !.tasks = @ \ {"other"}]
    /\ UNCHANGED <<inVars, config, pc, exit_code, error_messages, procVars, handlers,
                   signal_triggered, loopVars, outVars, ret, hist>>

\* signal_handler when setup_signal_handlers has run; before that the default
\* action of the signal ends the process (lrun.cc:712-751, 844).
DeliverSignal ==
    /\ Alive
    /\ \E sig \in DeliveredSignals :
          IF handlers
          THEN /\ signal_triggered' = sig
               /\ hist' = [hist EXCEPT !.sig_in_loop = @ \/ pc \in LoopPcs]
               /\ UNCHANGED <<pc, cg>>
          ELSE /\ pc' = "killed"
               /\ cg' = [cg EXCEPT !.locked = FALSE]
               /\ UNCHANGED <<signal_triggered, hist>>
    /\ UNCHANGED <<inVars, config, exit_code, error_messages, procVars, handlers,
                   loopVars, outVars, ret>>

-----------------------------------------------------------------------------
(* A second lrun process with the same --cgname (lrun.cc:1005-1013), in the
   steps that touch what the two share: the cgroup and its lock *)

\* The variables of this process that a step of the second one leaves alone
ownVars == <<argv, env, config, pc, exit_code, error_messages, pid, handlers,
             signal_triggered, stat, exceeded_limit, running, samples, times,
             report, fd3, fd3_state, ret, hist>>

\* killall by the second process: every task of the group is killed, the
\* child of this process among them
PeerKillall ==
    /\ cg' = [cg EXCEPT !.tasks = {}]
    /\ child' = KillChild(child)
    /\ child_stat' = KillChildStat(child, child_stat)

\* Its killall finds the child of this process running and this process alive
PeerHits == child = "running" /\ pc \notin {"exited", "killed"}

\* create_cgroup: the group is there already, or is made
PeerCreateCgroup ==
    /\ peer.pc = "create_cgroup"
    /\ cg' = [cg EXCEPT !.exists = TRUE]
    /\ peer' = [peer EXCEPT !.pc = "lock"]
    /\ UNCHANGED <<ownVars, child, child_stat>>

\* The flock: granted when this process does not hold it
PeerLock ==
    /\ peer.pc = "lock"
    /\ ~cg.locked
    /\ peer' = [peer EXCEPT !.pc = "setup"]
    /\ UNCHANGED <<ownVars, cg, child, child_stat>>

\* setup_cgroup, with its killall and reset_usages
PeerSetup ==
    /\ peer.pc = "setup"
    /\ PeerKillall
    /\ peer' = [peer EXCEPT !.pc = "spawn", !.hit = @ \/ PeerHits]
    /\ UNCHANGED ownVars

\* Cgroup::spawn: its child joins the group
PeerSpawn ==
    /\ peer.pc = "spawn"
    /\ cg' = [cg EXCEPT !.tasks = @ \cup {"peerchild"}]
    /\ peer' = [peer EXCEPT !.pc = "run"]
    /\ UNCHANGED <<ownVars, child, child_stat>>

\* Its loop ends, and its report is written
PeerRun ==
    /\ peer.pc = "run"
    /\ peer' = [peer EXCEPT !.pc = "clean"]
    /\ UNCHANGED <<ownVars, cg, child, child_stat>>

\* clean_cg_exit with a --cgname: killall, and exit, which drops the flock
PeerCleanCgExit ==
    /\ peer.pc = "clean"
    /\ PeerKillall
    /\ peer' = [peer EXCEPT !.pc = "exited", !.hit = @ \/ PeerHits]
    /\ UNCHANGED ownVars

PeerNext ==
    \/ PeerCreateCgroup \/ PeerLock \/ PeerSetup \/ PeerSpawn \/ PeerRun
    \/ PeerCleanCgExit

-----------------------------------------------------------------------------
(* Specifications *)

Startup ==
    \/ Main \/ CheckConfig \/ CheckEnvironment \/ CreateCgroup \/ Lock
    \/ SetupDevices \/ SetupMemory \/ SetupOptions \/ SetupKillall \/ SetupReset
    \/ RunCloexec \/ Spawn

Monitor ==
    \/ EnterLoop \/ LoopSignal \/ LoopWaitpid \/ LoopCpu \/ LoopReal \/ LoopMem
    \/ LoopZombie \/ LoopOutput \/ LoopEmpty
    \/ Collect \/ Write \/ Close

Environment == ChildTerminates \/ ChildForks \/ OtherExits \/ DeliverSignal

Next == Startup \/ Monitor \/ CleanCgExit \/ Environment

Spec == Init /\ [][Next]_vars

\* The start of the program on the command lines of CliInputs, up to the
\* return of Cgroup::spawn
InitCli == InitWith(CliInputs)

NextCli == Startup \/ CleanCgExit

SpecCli == InitCli /\ [][NextCli]_vars

\* The start of the program on the command lines of RuleInputs, up to spawn
InitRules == InitWith(RuleInputs)

SpecRules == InitRules /\ [][NextCli]_vars

\* Runs with a real-time limit, in which every step of the process returns
\* and the clock advances: of the reads of now() that the loop keeps making,
\* one finds the deadline reached.
LiveInputs ==
    {RunArgv(c, TRUE, FALSE, FALSE, <<>>) : c \in BOOLEAN} \X {User} \X {FreshCgroup}

InitLive == InitWith(LiveInputs)

ProcessStep == Startup \/ Monitor \/ CleanCgExit
DeadlineRead == LoopReal /\ hist'.left = "REAL_TIME"

SpecLive ==
    InitLive /\ [][Next]_vars /\ WF_vars(ProcessStep) /\ SF_vars(DeadlineRead)

\* Two processes started with the same --cgname
PairInputs ==
    {RunArgv(FALSE, b, FALSE, FALSE, x) : b \in BOOLEAN, x \in RunExtras \ {<<>>}}
        \X {User} \X {FreshCgroup, UsedCgroup}

InitPair == InitRun(PairInputs) /\ peer = PeerStart

NextPair == Next \/ PeerNext

SpecPair == InitPair /\ [][NextPair]_vars


-----------------------------------------------------------------------------
(* Properties of the status record and of the exit paths *)

RecordKeys == <<"MEMORY", "CPUTIME", "REALTIME", "SIGNALED", "EXITCODE", "TERMSIG", "EXCEED">>
ExceedNames == {"none", "CPU_TIME", "REAL_TIME", "MEMORY", "OUTPUT"}

\* A record of seven lines with the seven keys in their order
WellFormed(r) ==
    /\ Len(r) = 7
    /\ \A i \in 1..7 : r[i][1] = RecordKeys[i]
    /\ r[7][2] \in ExceedNames

\* The value the record r gives for a key
Field(r, key) == r[CHOOSE i \in 1..7 : RecordKeys[i] = key][2]

\* The loop was left by one of its breaks, not by clean_cg_exit
LeftNormally == hist.left # ""
\* The code after the loop has composed the record
Composed == report # <<>>
\* The time since start_time, as the code after the loop read it
FinalReal == samples.clock - times.start_time

C2_RealStatus ==
    (Composed /\ hist.term_before_collect) =>
        /\ Field(report, "SIGNALED") = (IF WIFSIGNALED(child_stat) THEN 1 ELSE 0)
        /\ Field(report, "EXITCODE") = WEXITSTATUS(child_stat)
        /\ Field(report, "TERMSIG") = WTERMSIG(child_stat)

\* C3 as stated: once create_cgroup has succeeded, the process never ends
\* with its own cgroup still there, nor with tasks in a cgroup it borrowed.
C3_CgroupCleaned ==
    (pc \in {"exited", "killed"} /\ hist.created) =>
        IF config.cgname = "" THEN ~cg.exists ELSE cg.tasks = {}

\* C4 as stated: a run in which a handled signal arrived while the loop was
\* running ends with exit code 4.
C4_SignalExitsFour ==
    (pc = "exited" /\ hist.sig_in_loop) => exit_code = 4

\* C5: as long as the loop has not been left normally, write has not been
\* called and nothing is on fd 3; so it is at every exit that is not the
\* normal one.
C5_NoRecordOnAbort ==
    ~LeftNormally => (fd3 = <<>> /\ hist.write_calls = 0)

C5_Witness ==
    /\ pc = "exited" /\ exit_code = 4 /\ signal_triggered # 0
    /\ ~LeftNormally /\ env.fd3 = "open" /\ fd3 = <<>>

\* The command line was parsed to its end and check_config has been entered
Parsed == pc # "main" /\ ParseCli(argv, env).exit = NoExit

\* check_config has refused the configuration: exit code 1, and neither
\* create_cgroup nor spawn has run
Rejected == pc = "exited" /\ exit_code = 1 /\ ~hist.created /\ child = "none" /\ pid = 0

\* C6: create_cgroup and spawn are reached only with a target uid and a
\* target gid other than 0, and a parsed configuration whose uid or gid is 0
\* (given, converted from a value that is 0 modulo 2^32, or inherited from
\* the caller) ends with exit code 1 before both.
C6_NeverRoot ==
    /\ (hist.created \/ pc = "spawn" \/ child # "none" \/ pid # 0) =>
          (config.uid # 0 /\ config.gid # 0)
    /\ (Parsed /\ (config.uid = 0 \/ config.gid = 0)) =>
          (pc = "check_config" \/ Rejected)

C6_Witness ==
    /\ Rejected /\ Parsed
    /\ env.uid # 0 /\ env.gid # 0
    /\ config.uid = 0
    /\ \E i \in DOMAIN argv : argv[i] = LongLong(1, 0)

\* The configuration uses an option that is for root only
UsesRootOnly ==
    \/ config.uid # env.uid
    \/ config.gid # env.gid
    \/ Len(config.cmd_list) > 0
    \/ \E i \in DOMAIN argv : argv[i] = Opt("group")
    \/ config.nice < 0
    \/ ~config.no_new_privs

\* C7 as stated: a caller that is not root and uses an option that is for
\* root only, --group with any gid among them, is refused with exit code 1
\* before create_cgroup and spawn.
C7_RootOnlyRejected ==
    (env.uid # 0 /\ Parsed /\ UsesRootOnly) => (pc = "check_config" \/ Rejected)

\* The child was reaped by the loop's waitpid, with a status that is neither
\* death by SIGXCPU nor death by SIGXFSZ, and the record has been composed
ReapedPlain ==
    /\ Composed /\ hist.left = "reaped"
    /\ ~KilledBy(stat, SIGXCPU) /\ ~KilledBy(stat, SIGXFSZ)

\* The record gives the status of the child as the kernel has it
Verbatim ==
    /\ stat = child_stat
    /\ Field(report, "SIGNALED") = (IF WIFSIGNALED(child_stat) THEN 1 ELSE 0)
    /\ Field(report, "EXITCODE") = WEXITSTATUS(child_stat)
    /\ Field(report, "TERMSIG") = WTERMSIG(child_stat)

\* C8 as stated: on the reaped path the record gives the status verbatim and
\* EXCEED is none.
C8_ReapedNone ==
    ReapedPlain => (Verbatim /\ Field(report, "EXCEED") = "none")

\* C8 amended: on the reaped path the record gives the status verbatim, and
\* EXCEED is what the samples taken after the loop say: REAL_TIME when the
\* elapsed time has reached the real-time limit, else CPU_TIME when the cpu
\* usage has reached the cpu limit, else MEMORY when the memory peak has
\* reached the memory limit, else none.
C8_ReapedRecomputed ==
    ReapedPlain =>
        /\ Verbatim
        /\ Field(report, "EXCEED") =
              IF config.real_time_limit > 0 /\ FinalReal >= config.real_time_limit
              THEN "REAL_TIME"
              ELSE IF config.cpu_time_limit > 0 /\ samples.cpu >= config.cpu_time_limit
              THEN "CPU_TIME"
              ELSE IF config.memory_limit > 0 /\ samples.mem >= config.memory_limit
              THEN "MEMORY"
              ELSE "none"

C8_Witness ==
    /\ ReapedPlain /\ WIFEXITED(stat) /\ WEXITSTATUS(stat) = 3
    /\ Field(report, "EXCEED") = "CPU_TIME"
    /\ samples.mem >= config.memory_limit /\ config.memory_limit > 0

\* C9 as stated: a child killed by SIGXCPU gives EXCEED CPU_TIME and a child
\* killed by SIGXFSZ gives EXCEED OUTPUT, whatever the limits and samples.
C9_SignalDecides ==
    Composed =>
        /\ KilledBy(stat, SIGXCPU) => Field(report, "EXCEED") = "CPU_TIME"
        /\ KilledBy(stat, SIGXFSZ) => Field(report, "EXCEED") = "OUTPUT"

\* The elapsed time read after the loop has reached a configured real-time limit
RealTimeReached == config.real_time_limit > 0 /\ FinalReal >= config.real_time_limit

\* C9 amended: a child killed by SIGXCPU gives EXCEED CPU_TIME and a child
\* killed by SIGXFSZ gives EXCEED OUTPUT, unless the elapsed time read after
\* the loop has reached a configured real-time limit: then EXCEED is REAL_TIME.
C9_SignalUnlessRealTime ==
    Composed =>
        /\ KilledBy(stat, SIGXCPU) =>
              Field(report, "EXCEED") = IF RealTimeReached THEN "REAL_TIME" ELSE "CPU_TIME"
        /\ KilledBy(stat, SIGXFSZ) =>
              Field(report, "EXCEED") = IF RealTimeReached THEN "REAL_TIME" ELSE "OUTPUT"

C9_Witness ==
    /\ Composed /\ KilledBy(stat, SIGXCPU) /\ RealTimeReached
    /\ Field(report, "EXCEED") = "REAL_TIME"
    /\ samples.cpu < config.cpu_time_limit

\* From the spawn to close(3) the process has killed no task other than those
\* in allowed, the cgroup is there, and write, close and cleanup come in
\* this order.
ReportThenCleanup(allowed) ==
    /\ (pc \in LoopPcs \cup {"handlers", "collect", "write", "close"}) =>
          (cg.killed \subseteq allowed /\ cg.exists)
    /\ (pc \in LoopPcs \cup {"handlers", "collect", "write"}) =>
          (hist.write_calls = 0 /\ hist.close_calls = 0)
    /\ pc = "close" => (hist.write_calls = 1 /\ hist.close_calls = 0)
    /\ (pc \in {"clean", "exited"} /\ LeftNormally) =>
          (hist.write_calls = 1 /\ hist.close_calls = 1)

\* C10 as stated: write, then close(3), then cleanup, and no task of the
\* cgroup is killed by this process before the write.
C10_NoKillBeforeWrite == ReportThenCleanup({})

\* C10 amended: write, then close(3), then cleanup, and between the spawn and
\* the write this process kills no task of the cgroup; the tasks that a
\* cgroup in use held before are killed by setup_cgroup, before the spawn.
C10_NoKillAfterSpawn == ReportThenCleanup({"old"})

C10_Witness ==
    /\ pc = "exited" /\ LeftNormally
    /\ hist.write_calls = 1 /\ hist.close_calls = 1
    /\ cg.killed = {"old", "other"} /\ config.cgname # ""

\* The exit code c is the one of the failure kind k
HasCode(k, c) ==
    CASE k = "arguments" -> c = 1
      [] k = "devices" -> c = 1
      [] k = "memory" -> c = 2
      [] k = "reset" -> c = 4
      [] k = "signal" -> c = 4
      [] k = "cloexec" -> c = 5
      [] k = "waitpid" -> c = 6
      [] k = "options" -> c = 7
      [] k = "spawn" -> c >= 10
      [] OTHER -> FALSE

\* The failure kinds for which lrun.cc itself gives the exit code
CodedKinds ==
    {"arguments", "devices", "memory", "reset", "signal", "cloexec", "waitpid",
     "options", "spawn"}

\* Two failure kinds that lrun.cc ends with the same exit code
SameCode == { {"arguments", "devices"}, {"reset", "signal"} }

\* C11 as stated: an abnormal exit has a code that is not 0, is the code of
\* its failure kind, and is the code of no other kind.
C11_DistinctCodes ==
    (pc = "exited" /\ hist.kind # "") =>
        /\ exit_code # 0
        /\ HasCode(hist.kind, exit_code)
        /\ \A k \in CodedKinds \ {hist.kind} : ~HasCode(k, exit_code)

\* C11 amended: an abnormal exit of one of the kinds bad arguments (1),
\* devices whitelist failure (1), memory-limit failure (2), usage-reset
\* failure (4), signal (4), FD_CLOEXEC failure (5), waitpid failure (6),
\* cgroup-option failure (7), spawn failure (10 minus the spawn result) has
\* the code of its kind, which is not 0; the code is that of no other kind,
\* except that 1 is shared by bad arguments and the devices whitelist and 4
\* by the usage reset and the signal.
C11_ExitCodes ==
    (pc = "exited" /\ hist.kind \in CodedKinds) =>
        /\ exit_code # 0
        /\ HasCode(hist.kind, exit_code)
        /\ \A k \in CodedKinds \ {hist.kind} :
              HasCode(k, exit_code) => {k, hist.kind} \in SameCode

C11_Witness ==
    /\ pc = "exited" /\ hist.kind = "reset" /\ exit_code = 4
    /\ hist.created /\ child = "none"

\* C12: a run that left the loop normally exits with 0 when pass_exitcode is
\* false, whatever the record says, and with the EXITCODE of its record when
\* pass_exitcode is true.
C12_ExitCode ==
    (pc = "exited" /\ LeftNormally) =>
        exit_code = IF config.pass_exitcode THEN Field(report, "EXITCODE") ELSE 0

C12_Witness ==
    /\ pc = "exited" /\ LeftNormally /\ config.pass_exitcode
    /\ fd3 = <<report>> /\ Field(report, "EXITCODE") = 3 /\ exit_code = 3

\* One second, in the unit of config.interval (microseconds); the cpu limit
\* and the cpu usage are in seconds
Second == 1000000

\* C13: a record with EXCEED CPU_TIME gives a CPUTIME of at most the cpu limit
\* plus two sampling intervals, however the usage grew between the sample
\* that broke the loop and the sample read for the record.
C13_CpuTimeBound ==
    (Composed /\ Field(report, "EXCEED") = "CPU_TIME") =>
        Field(report, "CPUTIME") * Second
            <= config.cpu_time_limit * Second + 2 * config.interval

C13_Witness ==
    /\ Composed /\ Field(report, "EXCEED") = "CPU_TIME" /\ hist.left = "CPU_TIME"
    /\ samples.cpu > config.cpu_time_limit
    /\ Field(report, "CPUTIME") = config.cpu_time_limit

\* C14: a record with EXCEED MEMORY gives a MEMORY of at most the memory limit
\* plus one page, whatever peaks were read.
C14_MemoryBound ==
    (Composed /\ Field(report, "EXCEED") = "MEMORY") =>
        Field(report, "MEMORY") <= config.memory_limit + PageSize

C14_Witness ==
    /\ Composed /\ Field(report, "EXCEED") = "MEMORY"
    /\ samples.mem > config.memory_limit + PageSize
    /\ Field(report, "MEMORY") = config.memory_limit

\* This process is between the start of setup_cgroup and its exit
InInterval ==
    pc \in LoopPcs \cup {"setup_devices", "setup_memory", "setup_options",
                         "setup_killall", "setup_reset", "cloexec", "spawn",
                         "handlers", "collect", "write", "close", "clean"}

\* C15: of two processes with the same --cgname, at most one is between the
\* start of setup_cgroup and its exit; a killall of one kills the child of the
\* other only when the other process is gone.
C15_Serialized ==
    /\ ~(InInterval /\ PeerHolds)
    /\ InInterval => cg.locked
    /\ ~peer.hit
    /\ "peerchild" \in cg.killed => peer.pc = "exited"

C15_Witness ==
    /\ pc = "lock" /\ peer.pc = "run" /\ "peerchild" \in cg.tasks
    /\ config.cgname # ""

\* C16: with a --cgname the cgroup, once create_cgroup has returned it, is
\* there in every later state, the exit included: cleanup only kills its
\* tasks.  So a cgroup that is gone was one without --cgname.
C16_BorrowedKept ==
    (config.cgname # "" /\ hist.created) => cg.exists

C16_Witness ==
    /\ pc = "exited" /\ config.cgname # "" /\ hist.created
    /\ cg.exists /\ cg.tasks = {} /\ "child" \in cg.killed

LimitNames == {"CPU_TIME", "REAL_TIME", "MEMORY", "OUTPUT"}

\* The tests of the loop on the values they read last
CpuFired == config.cpu_time_limit > 0 /\ samples.cpu >= config.cpu_time_limit
DeadlineFired == times.deadline > 0 /\ samples.clock >= times.deadline
MemoryFired == config.memory_limit > 0 /\ samples.mem >= config.memory_limit
OutputFired == config.output_limit > 0 /\ samples.out > config.output_limit

\* Right after a break on a limit: the loop leaves with the limit of the first
\* test that fired, in the order cpu, deadline, memory, output
FirstFired ==
    (pc = "collect" /\ hist.left \in LimitNames) =>
        /\ exceeded_limit = hist.left
        /\ hist.left = "CPU_TIME" => CpuFired
        /\ hist.left = "REAL_TIME" => (~CpuFired /\ DeadlineFired)
        /\ hist.left = "MEMORY" => (~CpuFired /\ ~DeadlineFired /\ MemoryFired)
        /\ hist.left = "OUTPUT" =>
              (~CpuFired /\ ~DeadlineFired /\ ~MemoryFired /\ OutputFired)

\* The record is composed after a break on a limit, the child not reaped
LimitBreak == Composed /\ hist.left \in LimitNames /\ child # "reaped"

\* C17 as stated: the loop leaves with the limit of the first test that
\* fired, and EXCEED of the record is that limit.
C17_LoopDecides ==
    /\ FirstFired
    /\ LimitBreak => Field(report, "EXCEED") = hist.left

\* C17 amended: the loop leaves with the limit of the first test that fired,
\* in the order cpu, deadline, memory, output; EXCEED of the record is that
\* limit unless a value read after the loop has reached a configured limit:
\* then it is REAL_TIME for the elapsed time, else CPU_TIME for the cpu usage,
\* else MEMORY for the memory peak.
C17_LoopThenRecomputed ==
    /\ FirstFired
    /\ LimitBreak =>
          Field(report, "EXCEED") =
              IF RealTimeReached THEN "REAL_TIME"
              ELSE IF CpuFired THEN "CPU_TIME"
              ELSE IF MemoryFired THEN "MEMORY"
              ELSE hist.left

C17_Witness ==
    /\ LimitBreak /\ hist.left = "MEMORY" /\ child = "running"
    /\ Field(report, "EXCEED") = "CPU_TIME"

\* A run that has ended after its record was written, in which the child had
\* not terminated when the record was composed, no signal was recorded and
\* the loop did not break on the cpu, memory or output test
QuietRun ==
    /\ pc = "exited" /\ LeftNormally /\ hist.write_calls = 1
    /\ ~hist.term_before_collect
    /\ signal_triggered = 0
    /\ hist.left \notin {"CPU_TIME", "MEMORY", "OUTPUT"}

RealTimeRecord ==
    /\ hist.left = "REAL_TIME"
    /\ Field(report, "EXCEED") = "REAL_TIME"
    /\ Field(report, "REALTIME") = config.real_time_limit

\* C18: with a real-time limit, a process that is in the loop leaves it and
\* ends; and a run in which the child did not terminate, no other limit
\* broke the loop and no signal came has written a record with EXCEED
\* REAL_TIME and REALTIME equal to the limit.
C18_RealTimeEnds ==
    /\ (pc \in LoopPcs) ~> (pc = "exited")
    /\ [](QuietRun => RealTimeRecord)

C18_Witness ==
    /\ QuietRun /\ RealTimeRecord /\ fd3 = <<report>>
    /\ config.real_time_limit > 0 /\ "child" \in cg.killed

NoLimit ==
    /\ config.cpu_time_limit <= 0 /\ config.real_time_limit <= 0
    /\ config.memory_limit <= 0 /\ config.output_limit <= 0

\* C19: an iteration of the loop that begins after the child has terminated
\* does not get past its waitpid: the process is at the tests of an iteration
\* only if the child had not terminated when that iteration began.  (A child
\* that terminates during an iteration is found by the zombie check of that
\* iteration or by the waitpid of the next.)
C19_LeavesAfterTermination ==
    pc \in LoopPcs \ {"loop", "waitpid"} => ~hist.term_at_top

C19_Witness ==
    /\ pc = "collect" /\ hist.left = "reaped" /\ hist.term_at_top
    /\ "other" \in cg.tasks /\ NoLimit

\* The steps of setup_cgroup that the configuration asks for, in their order
SetupSteps(cfg) ==
    Chunk(cfg.enable_devices_whitelist, <<"devices">>)
      \o Chunk(cfg.memory_limit > 0, <<"memory">>)
      \o Chunk(cfg.cgroup_options # {}, <<"options">>)
      \o <<"killall", "reset">>

IsPrefix(a, b) == Len(a) <= Len(b) /\ a = SubSeq(b, 1, Len(a))

SpawnCalled == pid # 0 \/ hist.kind = "spawn"
SetupFailures == {"devices", "memory", "options", "reset"}

\* C20: the steps of setup_cgroup are done in the order device whitelist (if
\* enabled), memory limit (if set), cgroup options, killall, reset; spawn is
\* called only when all of them are done; and when the device, memory,
\* option or reset step has failed the process is in clean_cg_exit or has
\* ended, and spawn has not been called.
C20_SpawnAfterSetup ==
    /\ hist.created => IsPrefix(hist.steps, SetupSteps(config))
    /\ (pc = "spawn" \/ SpawnCalled) => hist.steps = SetupSteps(config)
    /\ hist.kind \in SetupFailures =>
         /\ pc \in {"clean", "exited", "killed"}
         /\ ~SpawnCalled /\ child = "none"
         /\ hist.steps # SetupSteps(config)

C20_Witness ==
    /\ pid > 0 /\ child = "running"
    /\ hist.steps = <<"devices", "memory", "options", "killall", "reset">>
    /\ "old" \in cg.killed

\* C21: descriptor 3 is close-on-exec (or not open) when spawn is called, so
\* the command does not inherit it; and when fcntl has failed on an open
\* descriptor the process is in clean_cg_exit with code 5, or has exited with
\* code 5, and spawn has not been called.
C21_CloexecBeforeSpawn ==
    /\ (pc = "spawn" \/ SpawnCalled) => fd3_state # "open"
    /\ ~hist.inherited
    /\ hist.kind = "cloexec" =>
         /\ ~SpawnCalled /\ child = "none" /\ env.fd3 = "open"
         /\ pc \in {"clean", "exited", "killed"}
         /\ pc = "clean" => ret = 5
         /\ pc = "exited" => exit_code = 5

C21_Witness ==
    /\ pid > 0 /\ child = "running" /\ fd3_state = "cloexec" /\ env.fd3 = "open"

\* The rules of check_config, each stated on the configuration by itself,
\* and the number of them that a configuration violates
One(cond) == IF cond THEN 1 ELSE 0
Readable(p) == p.abs /\ p.acc

ViolationCount(cfg, e) ==
    LET nonroot == e.uid # 0
    IN  One(cfg.uid = 0 \/ (nonroot /\ cfg.uid # e.uid))
        + One(cfg.gid = 0 \/ (nonroot /\ cfg.gid # e.gid))
        + One(cfg.argc <= 0)
        + One(nonroot /\ cfg.cmd_list # <<>>)
        + One(nonroot /\ cfg.groups # <<>>)
        + One(nonroot) * Cardinality({i \in 1..Len(cfg.bindfs_list) :
                                        ~Readable(cfg.bindfs_list[i][2])})
        + One(nonroot /\ cfg.chroot_path.name # "" /\ ~Readable(cfg.chroot_path))
        + One(nonroot /\ cfg.chdir_path.name # "" /\ ~Readable(cfg.chdir_path))
        + One(nonroot) * Cardinality({d \in cfg.remount_list : d \notin cfg.bindfs_dest_set})
        + One(nonroot /\ ~cfg.no_new_privs)
        + One(nonroot /\ cfg.nice < 0)
        + One(cfg.syscall_list = "" /\ cfg.syscall_action = "DEFAULT_EPERM")

\* C22: check_config reports one message for every rule that the
\* configuration violates; with a violation it exits with code 1 from inside
\* check_config, no cgroup created and no child spawned; with none it goes on
\* to check_environment and has changed nothing.
C22_AllRulesReported ==
    [][(pc = "check_config" /\ pc' # pc) =>
         LET n == ViolationCount(config, env)
         IN  /\ Len(error_messages') = n
             /\ n > 0 => /\ pc' = "exited" /\ exit_code' = 1
                         /\ ~hist'.created /\ cg' = cg
                         /\ pid' = 0 /\ child' = "none" /\ fd3' = <<>>
             /\ n = 0 => /\ pc' = "check_environment"
                         /\ UNCHANGED <<config, cg, procVars, outVars, exit_code,
                                        handlers, error_messages>>]_vars

C22_Witness ==
    /\ pc = "exited" /\ exit_code = 1 /\ Len(error_messages) >= 3
    /\ ~hist.created /\ pid = 0

\* The --syscalls values of the command line, in their order; the last one
\* is the one in force
IsFilter(w) == "filter" \in DOMAIN w
SyscallsValues == SelectSeq(argv, IsFilter)
EmptyWhitelist ==
    /\ SyscallsValues # <<>>
    /\ LET v == SyscallsValues[Len(SyscallsValues)].filter
       IN  v.prefix \in {"", "=", "+"} /\ v.list = ""

ForbidsAll == "syscall filter forbids all syscalls"
Reported(m) == \E i \in 1..Len(error_messages) : error_messages[i] = m
CheckConfigDone == pc \notin {"main", "check_config"} /\ Len(argv) > 0

\* C23: once check_config has run, the syscall rule is reported, and the
\* process has exited with code 1, exactly when the --syscalls value in force
\* selects the whitelist mode (no prefix, "=" or "+") and has no rules; with
\* no --syscalls, or with a value of prefix "!" or "-", the rule is not
\* reported, whatever the rule list.
C23_EmptyWhitelistRejected ==
    CheckConfigDone =>
        /\ Reported(ForbidsAll) <=> EmptyWhitelist
        /\ EmptyWhitelist => pc = "exited" /\ exit_code = 1 /\ ~hist.created /\ pid = 0

C23_Witness ==
    /\ CheckConfigDone /\ EmptyWhitelist
    /\ SyscallsValues[Len(SyscallsValues)].filter.prefix = "+"
    /\ error_messages = <<ForbidsAll>> /\ pc = "exited" /\ exit_code = 1

\* The places of --max-memory on the command line, and the value given last
MaxMemoryAt ==
    {i \in 1..(Len(argv) - 1) : IsOption(argv[i]) /\ argv[i].opt = "max-memory"}
LastMaxMemory ==
    LET i == CHOOSE i \in MaxMemoryAt : \A j \in MaxMemoryAt : j <= i
    IN  argv[i + 1].num

\* C24: after parse_cli_options the memory limit is not positive or is at
\* least 500000: it is -1 without --max-memory, 500000 for a value given
\* between 1 and 499999, and the value given otherwise; the limit that
\* setup_cgroup sets is at least 500000.
C24_MemoryLimitFloor ==
    CheckConfigDone =>
        /\ config.memory_limit <= 0 \/ config.memory_limit >= 500000
        /\ config.memory_limit =
             IF MaxMemoryAt = {} THEN -1
             ELSE IF LastMaxMemory >= 1 /\ LastMaxMemory <= 499999 THEN 500000
             ELSE LastMaxMemory
        /\ (\E k \in 1..Len(hist.steps) : hist.steps[k] = "memory")
             => config.memory_limit >= 500000

C24_Witness ==
    /\ MaxMemoryAt # {} /\ LastMaxMemory = 499999
    /\ config.memory_limit = 500000
    /\ hist.steps = <<"memory", "killall", "reset">> /\ pid > 0

\* The destinations that the command line gives to the options of names
DestsOf(names) ==
    { argv[i + 1].str : i \in {j \in 1..(Len(argv) - 1) :
                                 IsOption(argv[j]) /\ argv[j].opt \in names} }
\* A --remount-ro whose destination no --bindfs or --bindfs-ro has
UnmatchedRemount == DestsOf({"remount-ro"}) \ DestsOf({"bindfs", "bindfs-ro"}) # {}
RemountRefused == "remount-ro without bindfs"
Rejected1 == pc = "exited" /\ exit_code = 1 /\ ~SpawnCalled /\ child = "none"

\* C25 as stated: for every caller, a command line with a --remount-ro that
\* has no bind of the same destination is rejected with exit code 1 and no
\* child is spawned.
C25_RemountRejected ==
    (CheckConfigDone /\ UnmatchedRemount) => Rejected1

\* C25: for a caller whose real uid is not 0, a command line with a
\* --remount-ro that has no bind of the same destination is rejected with
\* exit code 1, the rule is reported and no child is spawned; the rule is
\* reported for no other command line and for no caller that is root.
C25_RemountRejectedNonRoot ==
    CheckConfigDone =>
        /\ Reported(RemountRefused) <=> (env.uid # 0 /\ UnmatchedRemount)
        /\ (env.uid # 0 /\ UnmatchedRemount) => Rejected1

C25_Witness ==
    /\ CheckConfigDone /\ env.uid # 0 /\ UnmatchedRemount
    /\ DestsOf({"bindfs", "bindfs-ro"}) # {}
    /\ error_messages = <<RemountRefused>> /\ Rejected1

\* The places of the options of names on the command line, and the bool
\* that the last of them gives (default when there is none)
PlacesOf(names) ==
    {j \in 1..(Len(argv) - 1) : IsOption(argv[j]) /\ argv[j].opt \in names}
LastBool(name, default) ==
    IF PlacesOf({name}) = {} THEN default
    ELSE LET i == CHOOSE i \in PlacesOf({name}) : \A j \in PlacesOf({name}) : j <= i
         IN  argv[i + 1].bool
UtsOptions == {"hostname", "domainname", "ostype", "osrelease", "osversion"}

RequestedFlags ==
    (IF ~LastBool("network", TRUE) THEN {"CLONE_NEWNET"} ELSE {})
    \cup (IF LastBool("isolate-process", TRUE) THEN {"CLONE_NEWPID", "CLONE_NEWIPC"} ELSE {})
    \cup (IF PlacesOf(UtsOptions) # {} THEN {"CLONE_NEWUTS"} ELSE {})

\* C26: when spawn has been called, the clone flags it was given are
\* CLONE_NEWNET iff --network is false, CLONE_NEWPID and CLONE_NEWIPC iff
\* --isolate-process is true, CLONE_NEWUTS iff one of --hostname,
\* --domainname, --ostype, --osrelease, --osversion was given, and no other;
\* without any of these options they are CLONE_NEWPID and CLONE_NEWIPC.
C26_CloneFlags ==
    SpawnCalled =>
        /\ config.clone_flags = RequestedFlags
        /\ PlacesOf(UtsOptions \cup {"network", "isolate-process"}) = {}
             => config.clone_flags = {"CLONE_NEWPID", "CLONE_NEWIPC"}

C26_Witness ==
    /\ pid > 0 /\ child = "running"
    /\ config.clone_flags = {"CLONE_NEWNET", "CLONE_NEWPID", "CLONE_NEWIPC", "CLONE_NEWUTS"}

\* What the loop detected: the limit it broke on, if it broke on one
LoopDetected == IF hist.left \in LimitNames THEN hist.left ELSE "none"

\* C27: EXCEED of the record is REAL_TIME when the elapsed time read after
\* the loop has reached a configured real-time limit, and REALTIME is then
\* the limit; else OUTPUT for a child killed by SIGXFSZ; else CPU_TIME for a
\* child killed by SIGXCPU or a cpu usage at the limit; else MEMORY for a
\* memory peak at the limit; else what the loop detected.
C27_ExceedPrecedence ==
    Composed =>
        /\ Field(report, "EXCEED") =
             IF RealTimeReached THEN "REAL_TIME"
             ELSE IF KilledBy(stat, SIGXFSZ) THEN "OUTPUT"
             ELSE IF KilledBy(stat, SIGXCPU) \/ CpuFired THEN "CPU_TIME"
             ELSE IF MemoryFired THEN "MEMORY"
             ELSE LoopDetected
        /\ RealTimeReached => Field(report, "REALTIME") = config.real_time_limit

C27_Witness ==
    /\ Composed /\ RealTimeReached /\ FinalReal > config.real_time_limit
    /\ hist.left = "MEMORY" /\ CpuFired
    /\ Field(report, "EXCEED") = "REAL_TIME"
    /\ Field(report, "REALTIME") = config.real_time_limit

\* The loop was left by its cpu, deadline or memory test
EarlyTestBreak == hist.left \in {"CPU_TIME", "REAL_TIME", "MEMORY"}

Tagged(name) == Composed /\ Field(report, "EXCEED") = name

\* C29 as stated: a record has EXCEED CPU_TIME, REAL_TIME, MEMORY or OUTPUT
\* only when the limit of that name is set to a positive value.
C29_TagNeedsLimit ==
    /\ Tagged("CPU_TIME") => config.cpu_time_limit > 0
    /\ Tagged("REAL_TIME") => config.real_time_limit > 0
    /\ Tagged("MEMORY") => config.memory_limit > 0
    /\ Tagged("OUTPUT") => config.output_limit > 0

\* C29 amended: a record has EXCEED REAL_TIME or MEMORY only when the limit
\* of that name is set to a positive value, EXCEED CPU_TIME only when the cpu
\* limit is set or the wait status reports a child killed by SIGXCPU, and
\* EXCEED OUTPUT only when the output limit is set or the wait status reports
\* a child killed by SIGXFSZ.
C29_TagNeedsLimitOrSignal ==
    /\ Tagged("CPU_TIME") => (config.cpu_time_limit > 0 \/ KilledBy(stat, SIGXCPU))
    /\ Tagged("REAL_TIME") => config.real_time_limit > 0
    /\ Tagged("MEMORY") => config.memory_limit > 0
    /\ Tagged("OUTPUT") => (config.output_limit > 0 \/ KilledBy(stat, SIGXFSZ))

C29_Witness ==
    /\ Tagged("OUTPUT") /\ config.output_limit <= 0 /\ KilledBy(stat, SIGXFSZ)
    /\ pc = "exited" /\ fd3 = <<report>>

=============================================================================
